---- MODULE Spec2Model ----
(***************************************************************************)
(* A model of the session client of crypto_client (src/client.py): the     *)
(* Client object (session_id, aes, secret, use_encryption,                 *)
(* use_verification), its response validation, and its three operations    *)
(* connect, login and verify, each performing one blocking POST whose      *)
(* response the server chooses.                                            *)
(*                                                                         *)
(* Python values are modelled as follows.  A str is a TLA+ string; JSON    *)
(* null / Python None in a string-valued place is the value None.  A dict  *)
(* (JSON object) is a function whose DOMAIN is the set of keys present, so *)
(* d['k'] raises KeyError exactly when "k" \notin DOMAIN d.  An attribute  *)
(* holding either None or an object (aes, secret) is a sequence of length  *)
(* at most one: <<>> is None and <<x>> is the object x.  A base64 text is  *)
(* a sequence of one-character strings and bytes are a sequence of         *)
(* numbers 0..255.                                                         *)
(***************************************************************************)
EXTENDS Integers, Sequences, FiniteSets, TLC

\* The number of POSTs the transport performs in one behaviour.
MaxRequests == 3

\* The only transport status check_response accepts.
HTTP_OK == 200

None == "None"

NoObject == <<>>

Some(x) == <<x>>

\* Python truthiness of a str-or-None value: None and '' are falsy.
Truthy(v) == v # None /\ v # ""

(***************************************************************************)
(* Exceptions.  exc is the Python exception class, message its text and    *)
(* kind names the statement that raised it.                                 *)
(***************************************************************************)
NoError == [exc |-> "None", kind |-> "none", message |-> ""]

ServerError(kind, message) == [exc |-> "ServerError", kind |-> kind, message |-> message]

KeyError(key) == [exc |-> "KeyError", kind |-> "missing_field", message |-> key]

AttributeError == [exc |-> "AttributeError", kind |-> "no_cipher",
                   message |-> "'NoneType' object has no attribute 'encrypt'"]

DecryptionError == [exc |-> "DecryptionError", kind |-> "decryption", message |-> ""]

BinasciiError == [exc |-> "binascii.Error", kind |-> "decode", message |-> "Incorrect padding"]

\* The result of a step that either raises or returns a value.
Raise(e) == [err |-> e, val |-> NoObject]

Return(v) == [err |-> NoError, val |-> Some(v)]

Raised(r) == r.err # NoError

Value(r) == r.val[1]

(***************************************************************************)
(* base64.b64decode (default, non-validating mode), as binascii.a2b_base64 *)
(* computes it: characters outside the alphabet are skipped, a pad ends    *)
(* the input once the current quad is complete, and leftover sextets are   *)
(* an error.                                                                *)
(***************************************************************************)
B64Alphabet ==
    << "A","B","C","D","E","F","G","H","I","J","K","L","M","N","O","P",
       "Q","R","S","T","U","V","W","X","Y","Z","a","b","c","d","e","f",
       "g","h","i","j","k","l","m","n","o","p","q","r","s","t","u","v",
       "w","x","y","z","0","1","2","3","4","5","6","7","8","9","+","/" >>

IsB64Char(c) == \E i \in DOMAIN B64Alphabet : B64Alphabet[i] = c

B64Value(c) == (CHOOSE i \in DOMAIN B64Alphabet : B64Alphabet[i] = c) - 1

RECURSIVE a2b_base64(_, _, _)
a2b_base64(s, i, st) ==
    IF i > Len(s)
    THEN IF st.quad_pos # 0 THEN Raise(BinasciiError) ELSE Return(st.out)
    ELSE IF s[i] = "="
    THEN IF st.quad_pos >= 2 /\ st.quad_pos + st.pads + 1 >= 4
         THEN Return(st.out)
         ELSE a2b_base64(s, i + 1,
                  [st EXCEPT !.pads = IF st.quad_pos >= 2 THEN @ + 1 ELSE @])
    ELSE IF ~IsB64Char(s[i])
    THEN a2b_base64(s, i + 1, st)
    ELSE LET v == B64Value(s[i]) IN
         CASE st.quad_pos = 0 ->
                a2b_base64(s, i + 1,
                    [st EXCEPT !.quad_pos = 1, !.leftchar = v, !.pads = 0])
           [] st.quad_pos = 1 ->
                a2b_base64(s, i + 1,
                    [st EXCEPT !.quad_pos = 2, !.leftchar = v % 16, !.pads = 0,
                               !.out = Append(@, (st.leftchar * 4 + v \div 16) % 256)])
           [] st.quad_pos = 2 ->
                a2b_base64(s, i + 1,
                    [st EXCEPT !.quad_pos = 3, !.leftchar = v % 4, !.pads = 0,
                               !.out = Append(@, (st.leftchar * 16 + v \div 4) % 256)])
           [] OTHER ->
                a2b_base64(s, i + 1,
                    [st EXCEPT !.quad_pos = 0, !.leftchar = 0, !.pads = 0,
                               !.out = Append(@, (st.leftchar * 64 + v) % 256)])

b64decode(s) == a2b_base64(s, 1, [quad_pos |-> 0, leftchar |-> 0, pads |-> 0, out |-> <<>>])

(***************************************************************************)
(* The crypto collaborators (module crypto: RSASucker, AESSucker).  The    *)
(* client's key pair is generated once; the server encrypts the session    *)
(* key material under the public key it was sent.  A field decrypts only   *)
(* if it is a ciphertext under the client's own public key.                *)
(***************************************************************************)
rsa_public == "PUB"

ForeignPublic == "EVE"

KeyMaterial == {"K1", "IV1"}

rsa_encrypt(public, plaintext) == "rsa(" \o public \o "," \o plaintext \o ")"

rsa_decrypt_field(ciphertext) ==
    IF \E p \in KeyMaterial : rsa_encrypt(rsa_public, p) = ciphertext
    THEN Return(CHOOSE p \in KeyMaterial : rsa_encrypt(rsa_public, p) = ciphertext)
    ELSE Raise(DecryptionError)

\* RSASucker.decrypt(data, fields): the named fields decrypted, in order,
\* the other fields untouched.
rsa_decrypt(data, fields) ==
    LET bad == {i \in DOMAIN fields :
                   \/ fields[i] \notin DOMAIN data
                   \/ Raised(rsa_decrypt_field(data[fields[i]]))}
        named == {fields[i] : i \in DOMAIN fields}
    IN  IF bad # {}
        THEN LET i == CHOOSE j \in bad : \A k \in bad : j <= k
             IN  IF fields[i] \notin DOMAIN data
                 THEN Raise(KeyError(fields[i]))
                 ELSE Raise(DecryptionError)
        ELSE Return([k \in DOMAIN data |->
                        IF k \in named THEN Value(rsa_decrypt_field(data[k])) ELSE data[k]])

AESSucker(key, iv) == [key |-> key, iv |-> iv]

\* AESSucker.encrypt: deterministic under the session's key and IV.
aes_encrypt(cipher, data) ==
    Return("aes(" \o cipher.key \o "," \o cipher.iv \o "," \o data \o ")")

(***************************************************************************)
(* What the server may answer.  A response is the transport status and     *)
(* reason and the JSON body; any key of the body or of its data may be     *)
(* absent.                                                                  *)
(***************************************************************************)
StatusCodes == {200, 500}

Reason(status) == IF status = 200 THEN "OK" ELSE "Internal Server Error"

NullError == [code |-> None, message |-> None]

BadCredentials == [code |-> "E1", message |-> "Bad credentials"]

ErrorDtos == {NullError, BadCredentials}

\* The dict {key: o} if o is present, the empty dict otherwise.
Opt(key, o) == IF o = NoObject THEN [k \in {} |-> None] ELSE (key :> o[1])

SessionIdOpts == {NoObject, Some(None), Some(""), Some("s1"), Some("s2")}

AesKeyOpts == {NoObject, Some(rsa_encrypt(rsa_public, "K1")), Some(rsa_encrypt(ForeignPublic, "K1"))}

IvectorOpts == {Some(rsa_encrypt(rsa_public, "IV1")), Some("garbage")}

SecretOpts ==
    { NoObject,
      Some(<<"c","2","V","j","c","m","V","0">>),
      Some(<<"d","G","9","r","Z","W","4","=">>),
      Some(<<"d","G","9","r","Z","W","4">>) }

HandshakeData ==
    { Opt("sessionId", s) @@ Opt("aesKey", k) @@ Opt("ivector", v) :
        s \in SessionIdOpts, k \in AesKeyOpts, v \in IvectorOpts }

SessionData ==
    { Opt("sessionId", s) @@ Opt("secret", x) : s \in SessionIdOpts, x \in SecretOpts }

\* The data of a well-formed answer of each endpoint, with each sessionId.
HandshakeDataWith(s) ==
    Opt("sessionId", s) @@ Opt("aesKey", Some(rsa_encrypt(rsa_public, "K1")))
        @@ Opt("ivector", Some(rsa_encrypt(rsa_public, "IV1")))

SessionDataWith(s) ==
    Opt("sessionId", s) @@ Opt("secret", Some(<<"c","2","V","j","c","m","V","0">>))

Response(status, body) == [status_code |-> status, reason |-> Reason(status), body |-> body]

\* Every data with a null error code and status 200; every sessionId with an
\* error code or another status; and bodies without data or without errorDto.
HandshakeResponses ==
    {Response(200, [errorDto |-> NullError, data |-> d]) : d \in HandshakeData}
        \cup {Response(s, [errorDto |-> e, data |-> HandshakeDataWith(i)]) :
                 s \in StatusCodes, e \in ErrorDtos, i \in SessionIdOpts}
        \cup {Response(200, [errorDto |-> NullError]),
              Response(200, [errorDto |-> BadCredentials]),
              Response(200, [message |-> "not an envelope"])}

SessionResponses ==
    {Response(200, [errorDto |-> NullError, data |-> d]) : d \in SessionData}
        \cup {Response(s, [errorDto |-> e, data |-> SessionDataWith(i)]) :
                 s \in StatusCodes, e \in ErrorDtos, i \in SessionIdOpts}
        \cup {Response(200, [errorDto |-> NullError]),
              Response(200, [errorDto |-> BadCredentials]),
              Response(200, [message |-> "not an envelope"])}

Logins == {"alice"}

Passwords == {"pw"}

Codes == {"123456"}

(***************************************************************************)
(* The state: the Client's attributes, and the record of the last call.    *)
(***************************************************************************)
VARIABLES
    session_id,        \* Client.session_id: None or what the handshake stored
    aes,               \* Client.aes: None or the AESSucker
    secret,            \* Client.secret: None or the token bytes
    use_encryption,    \* Client.use_encryption
    use_verification,  \* Client.use_verification
    op,                \* the last operation called: connect, login or verify
    error,             \* what it raised, NoError if it returned
    request,           \* the POST it made, None if it made none
    response,          \* the response to that POST, None if there was none
    nrequests,         \* the number of POSTs made so far
    established,       \* history: some connect() has returned without error
    fresh,             \* history: the most recent connect() returned without error
    issued,            \* history: data.sessionId of the most recent successful handshake
    logged_in,         \* history: a login() has returned without error since that handshake
    negotiated,        \* history: the encryption flag that handshake's request carried
    pending,           \* the calls that have posted a request and await its response
    view,              \* ClientApp.stacked's current index
    error_message,     \* the text of ClientApp.error_message
    updating,          \* ClientApp.updating
    timers,            \* the number of pending QTimer.singleShot(update_documents)
    event,             \* the last signal a widget emitted, with its arguments
    alive              \* the application has not been aborted

\* The ClientApp's own state.
uivars == << view, error_message, updating, timers, event, alive >>

vars == << session_id, aes, secret, use_encryption, use_verification, op, error,
           request, response, nrequests, established, fresh, issued, logged_in,
           negotiated, pending, uivars >>

\* The indices of the views in ClientApp.stacked.
STACK == 0

LOGIN == 1

VERIFY == 2

DOCUMENTS == 3

FILE == 4

\* The Client object as a record.
Self ==
    [ session_id |-> session_id, aes |-> aes, secret |-> secret,
      use_encryption |-> use_encryption, use_verification |-> use_verification ]

(***************************************************************************)
(* Variants of check_response with one slip each, used to show that the    *)
(* properties below depend on its checks and on their order.               *)
(***************************************************************************)
\* The session identity is never compared.
check_response_no_session_check(self, resp) ==
    IF resp.status_code # HTTP_OK
    THEN ServerError("transport",
             "HTTP Response error: " \o ToString(resp.status_code) \o " " \o resp.reason)
    ELSE IF "errorDto" \notin DOMAIN resp.body
    THEN KeyError("errorDto")
    ELSE IF resp.body.errorDto.code # None
    THEN ServerError("application", resp.body.errorDto.message)
    ELSE NoError

\* The error code is looked at before the transport status.
check_response_code_first(self, resp) ==
    IF "errorDto" \in DOMAIN resp.body /\ resp.body.errorDto.code # None
    THEN ServerError("application", resp.body.errorDto.message)
    ELSE IF resp.status_code # HTTP_OK
    THEN ServerError("transport",
             "HTTP Response error: " \o ToString(resp.status_code) \o " " \o resp.reason)
    ELSE IF "errorDto" \notin DOMAIN resp.body
    THEN KeyError("errorDto")
    ELSE IF ~Truthy(self.session_id)
    THEN NoError
    ELSE IF "data" \notin DOMAIN resp.body
    THEN KeyError("data")
    ELSE IF "sessionId" \notin DOMAIN resp.body.data
    THEN KeyError("sessionId")
    ELSE IF self.session_id # resp.body.data.sessionId
    THEN ServerError("session", "Invalid SessionID. ")
    ELSE NoError

\* The session identity is compared before the error code is looked at.
check_response_session_first(self, resp) ==
    IF resp.status_code # HTTP_OK
    THEN ServerError("transport",
             "HTTP Response error: " \o ToString(resp.status_code) \o " " \o resp.reason)
    ELSE IF Truthy(self.session_id) /\ "data" \notin DOMAIN resp.body
    THEN KeyError("data")
    ELSE IF Truthy(self.session_id) /\ "sessionId" \notin DOMAIN resp.body.data
    THEN KeyError("sessionId")
    ELSE IF Truthy(self.session_id) /\ self.session_id # resp.body.data.sessionId
    THEN ServerError("session", "Invalid SessionID. ")
    ELSE IF "errorDto" \notin DOMAIN resp.body
    THEN KeyError("errorDto")
    ELSE IF resp.body.errorDto.code # None
    THEN ServerError("application", resp.body.errorDto.message)
    ELSE NoError

(***************************************************************************)
(* Client.check_response: the first failing check raises.  Returns the     *)
(* exception raised, NoError if the response passes.                       *)
(***************************************************************************)
check_response(self, resp) ==
    IF resp.status_code # HTTP_OK
    THEN ServerError("transport",
             "HTTP Response error: " \o ToString(resp.status_code) \o " " \o resp.reason)
    ELSE IF "errorDto" \notin DOMAIN resp.body
    THEN KeyError("errorDto")
    ELSE IF resp.body.errorDto.code # None
    THEN ServerError("application", resp.body.errorDto.message)
    ELSE IF ~Truthy(self.session_id)
    THEN NoError
    ELSE IF "data" \notin DOMAIN resp.body
    THEN KeyError("data")
    ELSE IF "sessionId" \notin DOMAIN resp.body.data
    THEN KeyError("sessionId")
    ELSE IF self.session_id # resp.body.data.sessionId
    THEN ServerError("session", "Invalid SessionID. ")
    ELSE NoError

\* Client.make_request, after the POST: the validated response's data.
make_request(self, resp) ==
    IF check_response(self, resp) # NoError
    THEN Raise(check_response(self, resp))
    ELSE IF "data" \notin DOMAIN resp.body
    THEN Raise(KeyError("data"))
    ELSE Return(resp.body.data)

\* Client.encrypt
encrypt(self, data) ==
    IF ~self.use_encryption
    THEN Return(data)
    ELSE IF self.aes = NoObject
    THEN Raise(AttributeError)
    ELSE aes_encrypt(self.aes[1], data)

\* A variant of build_token that stores data['secret'] without decoding it.
build_token_undecoded(self, data) ==
    IF "secret" \notin DOMAIN data
    THEN [self |-> self, err |-> KeyError("secret")]
    ELSE [self |-> [self EXCEPT !.secret = Some(data.secret)], err |-> NoError]

\* Client.build_token: the Client after it, and what it raised.
build_token(self, data) ==
    IF "secret" \notin DOMAIN data
    THEN [self |-> self, err |-> KeyError("secret")]
    ELSE LET decoded == b64decode(data.secret) IN
         IF Raised(decoded)
         THEN [self |-> self, err |-> decoded.err]
         ELSE [self |-> [self EXCEPT !.secret = Some(Value(decoded))], err |-> NoError]

(***************************************************************************)
(* The three operations.  Each gives the request it builds (err is set if  *)
(* building it raised, and then nothing is posted) and, for the response   *)
(* the server returns, the Client afterwards and the exception raised.     *)
(***************************************************************************)
connect_request(self) ==
    Return([endpoint |-> "rsakey",
            json |-> [rsaKey |-> rsa_public,
                      encryption |-> self.use_encryption,
                      postCode |-> self.use_verification]])

connect(self, resp) ==
    IF Raised(make_request(self, resp))
    THEN [self |-> self, err |-> make_request(self, resp).err]
    ELSE LET data == Value(make_request(self, resp)) IN
         IF "sessionId" \notin DOMAIN data
         THEN [self |-> self, err |-> KeyError("sessionId")]
         ELSE LET stored == [self EXCEPT !.session_id = data.sessionId]
                  plain == rsa_decrypt(data, <<"aesKey", "ivector">>)
              IN  IF Raised(plain)
                  THEN [self |-> stored, err |-> plain.err]
                  ELSE [self |-> [stored EXCEPT !.aes =
                                    Some(AESSucker(Value(plain).aesKey, Value(plain).ivector))],
                        err |-> NoError]

login_request(self, login, password) ==
    IF Raised(encrypt(self, login))
    THEN Raise(encrypt(self, login).err)
    ELSE IF Raised(encrypt(self, password))
    THEN Raise(encrypt(self, password).err)
    ELSE Return([endpoint |-> "login",
                 json |-> [sessionId |-> self.session_id,
                           login |-> Value(encrypt(self, login)),
                           password |-> Value(encrypt(self, password))]])

\* A variant of login that builds the token whatever use_verification is.
login_always_token(self, resp) ==
    IF Raised(make_request(self, resp))
    THEN [self |-> self, err |-> make_request(self, resp).err]
    ELSE build_token(self, Value(make_request(self, resp)))

login(self, resp) ==
    IF Raised(make_request(self, resp))
    THEN [self |-> self, err |-> make_request(self, resp).err]
    ELSE IF ~self.use_verification
    THEN build_token(self, Value(make_request(self, resp)))
    ELSE [self |-> self, err |-> NoError]

verify_request(self, code) ==
    IF Raised(encrypt(self, code))
    THEN Raise(encrypt(self, code).err)
    ELSE Return([endpoint |-> "verify",
                 json |-> [code |-> Value(encrypt(self, code)),
                           sessionId |-> self.session_id]])

\* A variant of verify that builds the token from the body before it
\* validates the response.
verify_token_first(self, resp) ==
    LET built == IF "data" \in DOMAIN resp.body
                 THEN build_token(self, resp.body.data)
                 ELSE [self |-> self, err |-> KeyError("data")]
    IN  IF Raised(make_request(self, resp))
        THEN [self |-> built.self, err |-> make_request(self, resp).err]
        ELSE built

verify(self, resp) ==
    IF Raised(make_request(self, resp))
    THEN [self |-> self, err |-> make_request(self, resp).err]
    ELSE build_token(self, Value(make_request(self, resp)))

(***************************************************************************)
(* Actions: one call of an operation by a caller that calls the Client     *)
(* directly and waits for each call to return, with the response the       *)
(* server gives to its POST.  The ClientApp is not involved.               *)
(***************************************************************************)
\* The Client's attributes become those of the record after.
Becomes(after) ==
    /\ session_id' = after.session_id
    /\ aes' = after.aes
    /\ secret' = after.secret
    /\ use_encryption' = after.use_encryption
    /\ use_verification' = after.use_verification

\* The call raised while building its request: nothing is posted.
NotSent(name, e) ==
    /\ op' = name
    /\ error' = e
    /\ request' = NoObject
    /\ response' = NoObject
    /\ UNCHANGED << session_id, aes, secret, use_encryption, use_verification,
                    nrequests, established, fresh, issued, logged_in, negotiated >>

\* The call posted req, got resp and ended as result.
Sent(name, req, resp, result) ==
    /\ op' = name
    /\ error' = result.err
    /\ request' = Some(req)
    /\ response' = Some(resp)
    /\ nrequests' = nrequests + 1
    /\ Becomes(result.self)

Init ==
    /\ session_id = None
    /\ aes = NoObject
    /\ secret = NoObject
    /\ use_encryption \in BOOLEAN
    /\ use_verification \in BOOLEAN
    /\ op = "init"
    /\ error = NoError
    /\ request = NoObject
    /\ response = NoObject
    /\ nrequests = 0
    /\ established = FALSE
    /\ fresh = FALSE
    /\ issued = None
    /\ logged_in = FALSE
    /\ negotiated = NoObject
    /\ pending = {}
    /\ view = STACK
    /\ error_message = ""
    /\ updating = FALSE
    /\ timers = 0
    /\ event = [signal |-> "none", args |-> <<>>]
    /\ alive = TRUE

Connect ==
    /\ nrequests < MaxRequests
    /\ \E resp \in HandshakeResponses :
        LET result == connect(Self, resp) IN
        /\ Sent("connect", Value(connect_request(Self)), resp, result)
        /\ established' = (established \/ result.err = NoError)
        /\ fresh' = (result.err = NoError)
        /\ issued' = IF result.err = NoError THEN resp.body.data.sessionId ELSE issued
        /\ logged_in' = (logged_in /\ result.err # NoError)
        /\ negotiated' = IF result.err = NoError THEN Some(use_encryption) ELSE negotiated
    /\ UNCHANGED << pending, uivars >>

Login ==
    /\ nrequests < MaxRequests
    /\ \E l \in Logins, p \in Passwords :
        IF Raised(login_request(Self, l, p))
        THEN NotSent("login", login_request(Self, l, p).err)
        ELSE \E resp \in SessionResponses :
                LET result == login(Self, resp) IN
                /\ Sent("login", Value(login_request(Self, l, p)), resp, result)
                /\ logged_in' = (logged_in \/ result.err = NoError)
                /\ UNCHANGED << established, fresh, issued, negotiated >>
    /\ UNCHANGED << pending, uivars >>

Verify ==
    /\ nrequests < MaxRequests
    /\ \E c \in Codes :
        IF Raised(verify_request(Self, c))
        THEN NotSent("verify", verify_request(Self, c).err)
        ELSE \E resp \in SessionResponses :
                LET result == verify(Self, resp) IN
                /\ Sent("verify", Value(verify_request(Self, c)), resp, result)
                /\ UNCHANGED << established, fresh, issued, logged_in, negotiated >>
    /\ UNCHANGED << pending, uivars >>

Next == Connect \/ Login \/ Verify

Spec == Init /\ [][Next]_vars

(***************************************************************************)
(* The ClientApp (src/ui.py): a stack of five views driven by the signals  *)
(* of its widgets.  Only the current view's widget is shown, so only its   *)
(* signals can be emitted.  A slot runs to completion on the event loop's  *)
(* thread: the Client call it makes has returned or raised before the next *)
(* signal or timer is handled.                                             *)
(***************************************************************************)
\* The ClientApp's attributes as a record.
Ui ==
    [ view |-> view, error_message |-> error_message,
      updating |-> updating, timers |-> timers ]

\* The signal connections ClientApp.__init__ makes.
Connections ==
    { <<"stack.submit", "set_stack">>,
      <<"login.submit", "on_login">>,
      <<"documents.add_file", "send_file">>,
      <<"documents.select_file", "show_file">>,
      <<"file.go_back", "show_documents">>,
      <<"file.delete_file", "delete_file">> }

Connected(signal, slot) == <<signal, slot>> \in Connections

show_error(ui, message) == [ui EXCEPT !.error_message = message]

hide_error(ui) == [ui EXCEPT !.error_message = ""]

change_view(ui, index) == [hide_error(ui) EXCEPT !.view = index]

(***************************************************************************)
(* The document calls the ClientApp makes on the Client (get_files,        *)
(* get_file, send_file, delete_file).  src/client.py defines none of them: *)
(* a call either raises AttributeError, or, where the Client has them, is  *)
(* an authenticated request that returns or raises ServerError.            *)
(***************************************************************************)
MissingMethod ==
    [exc |-> "AttributeError", kind |-> "no_method",
     message |-> "'Client' object has no attribute"]

RpcFailure == ServerError("transport", "HTTP Response error: 500 Internal Server Error")

RpcOutcomes == {NoError, RpcFailure, MissingMethod}

FileNames == {"a.txt"}

\* ClientApp.update_documents; files is how client.get_files() ended.
update_documents(ui, files) ==
    IF files # NoError
    THEN [ui |-> ui, err |-> files]
    ELSE [ui |-> [ui EXCEPT !.timers = @ + 1], err |-> NoError]

\* A variant of show_documents that starts the refresh chain every time.
show_documents_unguarded(ui, files, refreshed) ==
    IF files # NoError
    THEN [ui |-> change_view(ui, DOCUMENTS), err |-> files]
    ELSE update_documents([change_view(ui, DOCUMENTS) EXCEPT !.updating = TRUE], refreshed)

\* ClientApp.show_documents; files and refreshed are how its call of
\* client.get_files() and that of update_documents end.
show_documents(ui, files, refreshed) ==
    IF files # NoError
    THEN [ui |-> change_view(ui, DOCUMENTS), err |-> files]
    ELSE IF change_view(ui, DOCUMENTS).updating
    THEN [ui |-> change_view(ui, DOCUMENTS), err |-> NoError]
    ELSE update_documents([change_view(ui, DOCUMENTS) EXCEPT !.updating = TRUE], refreshed)

(***************************************************************************)
(* The slots.  Each gives the Client and the ClientApp after it, the       *)
(* Client operation it called (called, request, response, raised) and the  *)
(* exception that left the slot uncaught (err).                            *)
(***************************************************************************)
NoCall(self, ui, e) ==
    [ self |-> self, ui |-> ui, called |-> FALSE, request |-> NoObject,
      response |-> NoObject, raised |-> NoError, err |-> e ]

\* A variant of set_stack that connects before it stores the two flags.
set_stack_connect_first(self, ui, encryption, verification, resp) ==
    LET result == connect(self, resp) IN
    [ self |-> IF result.err = NoError
               THEN [result.self EXCEPT !.use_encryption = encryption,
                                        !.use_verification = verification]
               ELSE result.self,
      ui |-> IF result.err = NoError THEN change_view(ui, LOGIN) ELSE ui,
      called |-> TRUE,
      request |-> Some(Value(connect_request(self))),
      response |-> Some(resp),
      raised |-> result.err,
      err |-> result.err ]

\* ClientApp.set_stack
set_stack(self, ui, encryption, verification, resp) ==
    LET configured == [self EXCEPT !.use_encryption = encryption,
                                   !.use_verification = verification]
        result == connect(configured, resp)
    IN  [ self |-> result.self,
          ui |-> IF result.err = NoError THEN change_view(ui, LOGIN) ELSE ui,
          called |-> TRUE,
          request |-> Some(Value(connect_request(configured))),
          response |-> Some(resp),
          raised |-> result.err,
          err |-> result.err ]

\* What the except clause of on_login catches: ServerError and ValueError,
\* of which binascii.Error is a subclass.
CaughtByLogin(e) == e.exc \in {"ServerError", "binascii.Error"}

\* What the except clause of on_verify catches.
CaughtByVerify(e) == e.exc = "ServerError"

\* The body of a try block that ended with ui and raised e, under an except
\* clause that shows the message of what it catches.
Except(caught, ui, e) ==
    IF e = NoError THEN [ui |-> ui, err |-> NoError]
    ELSE IF caught THEN [ui |-> show_error(ui, e.message), err |-> NoError]
    ELSE [ui |-> ui, err |-> e]

\* A variant of on_login without the check for empty fields.
on_login_unchecked(self, ui, login_text, password_text, resp, files, refreshed) ==
    IF Raised(login_request(self, login_text, password_text))
    THEN [NoCall(self, ui, login_request(self, login_text, password_text).err)
             EXCEPT !.called = TRUE, !.raised = login_request(self, login_text, password_text).err]
    ELSE LET result == login(self, resp)
             shown == IF result.err # NoError THEN [ui |-> ui, err |-> result.err]
                      ELSE IF result.self.use_verification
                      THEN [ui |-> change_view(ui, VERIFY), err |-> NoError]
                      ELSE show_documents(ui, files, refreshed)
             after == Except(CaughtByLogin(shown.err), shown.ui, shown.err)
         IN  [ self |-> result.self, ui |-> after.ui, called |-> TRUE,
               request |-> Some(Value(login_request(self, login_text, password_text))),
               response |-> Some(resp), raised |-> result.err, err |-> after.err ]

\* A variant of on_login that shows the documents whatever use_verification is.
on_login_skips_verify(self, ui, login_text, password_text, resp, files, refreshed) ==
    IF login_text = "" \/ password_text = ""
    THEN NoCall(self, show_error(ui, "Login and/or password cannot be empty."), NoError)
    ELSE IF Raised(login_request(self, login_text, password_text))
    THEN [NoCall(self, ui, login_request(self, login_text, password_text).err)
             EXCEPT !.called = TRUE, !.raised = login_request(self, login_text, password_text).err]
    ELSE LET result == login(self, resp)
             shown == IF result.err # NoError THEN [ui |-> ui, err |-> result.err]
                      ELSE show_documents(ui, files, refreshed)
             after == Except(CaughtByLogin(shown.err), shown.ui, shown.err)
         IN  [ self |-> result.self, ui |-> after.ui, called |-> TRUE,
               request |-> Some(Value(login_request(self, login_text, password_text))),
               response |-> Some(resp), raised |-> result.err, err |-> after.err ]

\* ClientApp.on_login
on_login(self, ui, login_text, password_text, resp, files, refreshed) ==
    IF login_text = "" \/ password_text = ""
    THEN NoCall(self, show_error(ui, "Login and/or password cannot be empty."), NoError)
    ELSE on_login_unchecked(self, ui, login_text, password_text, resp, files, refreshed)

\* ClientApp.on_verify
on_verify(self, ui, code, resp, files, refreshed) ==
    IF Raised(verify_request(self, code))
    THEN [NoCall(self, ui, verify_request(self, code).err)
             EXCEPT !.called = TRUE, !.raised = verify_request(self, code).err]
    ELSE LET result == verify(self, resp)
             shown == IF result.err # NoError THEN [ui |-> ui, err |-> result.err]
                      ELSE show_documents(ui, files, refreshed)
             after == Except(CaughtByVerify(shown.err), shown.ui, shown.err)
         IN  [ self |-> result.self, ui |-> after.ui, called |-> TRUE,
               request |-> Some(Value(verify_request(self, code))),
               response |-> Some(resp), raised |-> result.err, err |-> after.err ]

\* ClientApp.show_file; file is how client.get_file(name) ended.
show_file(self, ui, file) == NoCall(self, change_view(ui, FILE), file)

\* ClientApp.send_file; sent is how client.send_file(filename) ended.
send_file(self, ui, sent) == NoCall(self, ui, sent)

\* ClientApp.delete_file; deleted is what client.delete_file(name) returned
\* (raising if outcome is an exception).
delete_file(self, ui, name, outcome, deleted, files, refreshed) ==
    IF outcome # NoError
    THEN NoCall(self, ui, outcome)
    ELSE LET told == IF deleted
                     THEN show_error(ui, "File '" \o name \o "' was deleted.")
                     ELSE ui
             shown == show_documents(told, files, refreshed)
         IN  NoCall(self, shown.ui, shown.err)

(***************************************************************************)
(* The ClientApp's actions: one signal of the current view's widget, or    *)
(* the refresh timer, with the slot connected to it run to its end.  The   *)
(* application is the Client's only caller here.  An exception that leaves *)
(* a slot is not handled anywhere: PyQt either prints it and goes on or    *)
(* aborts the application.                                                 *)
(***************************************************************************)
LoginTexts == Logins \cup {""}

PasswordTexts == Passwords \cup {""}

(***************************************************************************)
(* The outcomes of the document calls a slot makes.  A call the slot does  *)
(* not reach has no outcome; it is given as NoError.                       *)
(***************************************************************************)
Outcomes(reached) == IF reached THEN RpcOutcomes ELSE {NoError}

\* show_documents calls update_documents, and so get_files() again.
Refreshes(files) == files = NoError /\ ~updating

\* on_login gets as far as show_documents.
LoginShowsDocuments(l, p, resp) ==
    /\ l # "" /\ p # ""
    /\ ~Raised(login_request(Self, l, p))
    /\ login(Self, resp).err = NoError
    /\ ~use_verification

\* on_verify gets as far as show_documents.
VerifyShowsDocuments(c, resp) ==
    /\ ~Raised(verify_request(Self, c))
    /\ verify(Self, resp).err = NoError

Emit(signal, args) == event' = [signal |-> signal, args |-> args]

\* No slot is connected to the signal: nothing but the event changes.
Ignored ==
    UNCHANGED << session_id, aes, secret, use_encryption, use_verification,
                 op, error, request, response, nrequests, established, fresh,
                 issued, logged_in, negotiated, pending,
                 view, error_message, updating, timers, alive >>

\* The slot ended as r: the Client and the ClientApp become what it left.
Handled(name, r) ==
    /\ Becomes(r.self)
    /\ view' = r.ui.view
    /\ error_message' = r.ui.error_message
    /\ updating' = r.ui.updating
    /\ timers' = r.ui.timers
    /\ alive' \in (IF r.err = NoError THEN {TRUE} ELSE BOOLEAN)
    /\ IF r.called
       THEN /\ op' = name
            /\ error' = r.raised
            /\ request' = r.request
            /\ response' = r.response
            /\ nrequests' = nrequests + Len(r.request)
       ELSE UNCHANGED << op, error, request, response, nrequests >>
    /\ UNCHANGED pending

StackSubmit ==
    /\ alive /\ view = STACK
    /\ nrequests < MaxRequests
    /\ \E encryption \in BOOLEAN, verification \in BOOLEAN :
        /\ Emit("stack.submit", << encryption, verification >>)
        /\ IF Connected("stack.submit", "set_stack")
           THEN \E resp \in HandshakeResponses :
                   LET r == set_stack(Self, Ui, encryption, verification, resp) IN
                   /\ Handled("connect", r)
                   /\ established' = (established \/ r.raised = NoError)
                   /\ fresh' = (r.raised = NoError)
                   /\ issued' = IF r.raised = NoError
                                THEN resp.body.data.sessionId ELSE issued
                   /\ logged_in' = (logged_in /\ r.raised # NoError)
                   /\ negotiated' = IF r.raised = NoError
                                    THEN Some(r.request[1].json.encryption)
                                    ELSE negotiated
           ELSE Ignored

LoginSubmit ==
    /\ alive /\ view = LOGIN
    /\ nrequests < MaxRequests
    /\ \E l \in LoginTexts, p \in PasswordTexts :
        /\ Emit("login.submit", << l, p >>)
        /\ IF Connected("login.submit", "on_login")
           THEN \E resp \in SessionResponses :
                \E files \in Outcomes(LoginShowsDocuments(l, p, resp)) :
                \E refreshed \in Outcomes(LoginShowsDocuments(l, p, resp) /\ Refreshes(files)) :
                   LET r == on_login(Self, Ui, l, p, resp, files, refreshed) IN
                   /\ Handled("login", r)
                   /\ logged_in' = (logged_in \/ (r.request # NoObject /\ r.raised = NoError))
                   /\ UNCHANGED << established, fresh, issued, negotiated >>
           ELSE Ignored

VerifySubmit ==
    /\ alive /\ view = VERIFY
    /\ nrequests < MaxRequests
    /\ \E c \in Codes :
        /\ Emit("verify.submit", << c >>)
        /\ IF Connected("verify.submit", "on_verify")
           THEN \E resp \in SessionResponses :
                \E files \in Outcomes(VerifyShowsDocuments(c, resp)) :
                \E refreshed \in Outcomes(VerifyShowsDocuments(c, resp) /\ Refreshes(files)) :
                   LET r == on_verify(Self, Ui, c, resp, files, refreshed) IN
                   /\ Handled("verify", r)
                   /\ UNCHANGED << established, fresh, issued, logged_in, negotiated >>
           ELSE Ignored

AddFile ==
    /\ alive /\ view = DOCUMENTS
    /\ \E filename \in FileNames :
        /\ Emit("documents.add_file", << filename >>)
        /\ IF Connected("documents.add_file", "send_file")
           THEN \E sent \in RpcOutcomes :
                   /\ Handled("send_file", send_file(Self, Ui, sent))
                   /\ UNCHANGED << established, fresh, issued, logged_in, negotiated >>
           ELSE Ignored

SelectFile ==
    /\ alive /\ view = DOCUMENTS
    /\ \E name \in FileNames :
        /\ Emit("documents.select_file", << name >>)
        /\ IF Connected("documents.select_file", "show_file")
           THEN \E file \in RpcOutcomes :
                   /\ Handled("show_file", show_file(Self, Ui, file))
                   /\ UNCHANGED << established, fresh, issued, logged_in, negotiated >>
           ELSE Ignored

GoBack ==
    /\ alive /\ view = FILE
    /\ Emit("file.go_back", << >>)
    /\ IF Connected("file.go_back", "show_documents")
       THEN \E files \in RpcOutcomes :
            \E refreshed \in Outcomes(Refreshes(files)) :
               LET shown == show_documents(Ui, files, refreshed) IN
               /\ Handled("show_documents", NoCall(Self, shown.ui, shown.err))
               /\ UNCHANGED << established, fresh, issued, logged_in, negotiated >>
       ELSE Ignored

DeleteFile ==
    /\ alive /\ view = FILE
    /\ \E name \in FileNames :
        /\ Emit("file.delete_file", << name >>)
        /\ IF Connected("file.delete_file", "delete_file")
           THEN \E outcome \in RpcOutcomes :
                \E deleted \in (IF outcome = NoError THEN BOOLEAN ELSE {FALSE}) :
                \E files \in Outcomes(outcome = NoError) :
                \E refreshed \in Outcomes(outcome = NoError /\ Refreshes(files)) :
                   /\ Handled("delete_file",
                              delete_file(Self, Ui, name, outcome, deleted, files, refreshed))
                   /\ UNCHANGED << established, fresh, issued, logged_in, negotiated >>
           ELSE Ignored

\* QTimer.singleShot(1000, self.update_documents) comes due.
TimerFires ==
    /\ alive /\ timers > 0
    /\ Emit("timer", << >>)
    /\ \E files \in RpcOutcomes :
        LET due == update_documents([Ui EXCEPT !.timers = @ - 1], files) IN
        /\ Handled("update_documents", NoCall(Self, due.ui, due.err))
        /\ UNCHANGED << established, fresh, issued, logged_in, negotiated >>

\* __main__: Client(url) with its default flags, handed to the ClientApp.
UIInit ==
    /\ Init
    /\ use_encryption = TRUE
    /\ use_verification = FALSE

UINext ==
    \/ StackSubmit
    \/ LoginSubmit
    \/ VerifySubmit
    \/ AddFile
    \/ SelectFile
    \/ GoBack
    \/ DeleteFile
    \/ TimerFires

SpecUI == UIInit /\ [][UINext]_vars

(***************************************************************************)
(* Two callers of one Client, each on its own thread.  An operation is two *)
(* steps: up to requests.post, where it has read the Client to build its   *)
(* request and blocks, and from the response on, where check_response and  *)
(* the rest of the operation read and write the Client as it then is.      *)
(* The Client has no lock, queue or in-flight flag: nothing in an          *)
(* operation looks at whether another has posted.                          *)
(***************************************************************************)
Callers == {"t1", "t2"}

Waiting(t) == \E p \in pending : p.caller = t

\* Caller t enters the operation name, which builds req and posts it.
Post(t, name, req) ==
    /\ ~Waiting(t)
    /\ IF Raised(req)
       THEN NotSent(name, req.err) /\ UNCHANGED pending
       ELSE /\ pending' = pending \cup {[caller |-> t, name |-> name, request |-> Value(req)]}
            /\ nrequests' = nrequests + 1
            /\ UNCHANGED << session_id, aes, secret, use_encryption, use_verification,
                            op, error, request, response,
                            established, fresh, issued, logged_in, negotiated >>
    /\ UNCHANGED uivars

PostConnect ==
    /\ nrequests < MaxRequests
    /\ \E t \in Callers : Post(t, "connect", connect_request(Self))

PostLogin ==
    /\ nrequests < MaxRequests
    /\ \E t \in Callers, l \in Logins, p \in Passwords :
        Post(t, "login", login_request(Self, l, p))

PostVerify ==
    /\ nrequests < MaxRequests
    /\ \E t \in Callers, c \in Codes : Post(t, "verify", verify_request(Self, c))

\* The operation p posted gets resp and ends as result.
Received(p, resp, result) ==
    /\ pending' = pending \ {p}
    /\ op' = p.name
    /\ error' = result.err
    /\ request' = Some(p.request)
    /\ response' = Some(resp)
    /\ Becomes(result.self)
    /\ UNCHANGED << nrequests, uivars >>

ReceiveConnect ==
    \E p \in pending, resp \in HandshakeResponses :
        LET result == connect(Self, resp) IN
        /\ p.name = "connect"
        /\ Received(p, resp, result)
        /\ established' = (established \/ result.err = NoError)
        /\ fresh' = (result.err = NoError)
        /\ issued' = IF result.err = NoError THEN resp.body.data.sessionId ELSE issued
        /\ logged_in' = (logged_in /\ result.err # NoError)
        /\ negotiated' = IF result.err = NoError
                         THEN Some(p.request.json.encryption) ELSE negotiated

ReceiveLogin ==
    \E p \in pending, resp \in SessionResponses :
        LET result == login(Self, resp) IN
        /\ p.name = "login"
        /\ Received(p, resp, result)
        /\ logged_in' = (logged_in \/ result.err = NoError)
        /\ UNCHANGED << established, fresh, issued, negotiated >>

ReceiveVerify ==
    \E p \in pending, resp \in SessionResponses :
        LET result == verify(Self, resp) IN
        /\ p.name = "verify"
        /\ Received(p, resp, result)
        /\ UNCHANGED << established, fresh, issued, logged_in, negotiated >>

CallersNext ==
    \/ PostConnect
    \/ PostLogin
    \/ PostVerify
    \/ ReceiveConnect
    \/ ReceiveLogin
    \/ ReceiveVerify

SpecCallers == Init /\ [][CallersNext]_vars

(***************************************************************************)
(* Vocabulary of the properties.                                           *)
(***************************************************************************)
\* The last call posted a request and got a response.
Answered == response # NoObject

Status == response[1].status_code

HasErrorDto == "errorDto" \in DOMAIN response[1].body

ErrorCode == response[1].body.errorDto.code

HasData == "data" \in DOMAIN response[1].body

Data == response[1].body.data

\* resp carries a data.sessionId, and it is not sid.
Differs(sid, resp) ==
    /\ "data" \in DOMAIN resp.body
    /\ "sessionId" \in DOMAIN resp.body.data
    /\ resp.body.data.sessionId # sid

\* The bytes of b"secret" and b"token".
SecretBytes == <<115, 101, 99, 114, 101, 116>>

TokenBytes == <<116, 111, 107, 101, 110>>

\* What the two well-formed base64 texts of SecretOpts decode to.
Decoded(text) ==
    IF text = <<"c","2","V","j","c","m","V","0">> THEN SecretBytes ELSE TokenBytes

WellFormedSecret(d) ==
    /\ "secret" \in DOMAIN d
    /\ d.secret \in {<<"c","2","V","j","c","m","V","0">>, <<"d","G","9","r","Z","W","4","=">>}

(***************************************************************************)
(* C1.  Every failing connect() on a client on which no connect() has      *)
(* succeeded leaves it without a session identity (session_id unset or     *)
(* empty) and without a cipher (aes unset).                                *)
(***************************************************************************)
C1_FailedConnectRetainsNothing ==
    (op = "connect" /\ error # NoError /\ ~established)
        => (~Truthy(session_id) /\ aes = NoObject)

(***************************************************************************)
(* C2, as stated.  Once a successful connect() has established a session   *)
(* identity, every response whose data.sessionId differs from it is        *)
(* rejected with the session-integrity error, whatever its error code.     *)
(***************************************************************************)
C2_AnyDifferingIsSessionError ==
    [][ ( /\ established /\ Truthy(session_id) /\ session_id = issued
          /\ response' # NoObject
          /\ Differs(session_id, response'[1]) )
        => (error'.exc = "ServerError" /\ error'.kind = "session") ]_vars

(***************************************************************************)
(* C2, amended.  Once a successful connect() has established a (non-empty) *)
(* session identity, no response whose data.sessionId differs from it is   *)
(* accepted; it is rejected with the session-integrity error when its      *)
(* status is 200 and its error code is null, and as a transport or an      *)
(* application error otherwise.                                            *)
(***************************************************************************)
C2_DifferingIsRejected ==
    [][ ( /\ established /\ Truthy(session_id) /\ session_id = issued
          /\ response' # NoObject
          /\ Differs(session_id, response'[1]) )
        => /\ error'.exc = "ServerError"
           /\ session_id' = session_id /\ aes' = aes /\ secret' = secret
           /\ error'.kind =
                IF response'[1].status_code # 200 THEN "transport"
                ELSE IF response'[1].body.errorDto.code # None THEN "application"
                ELSE "session"
           /\ error'.kind = "session" => error'.message = "Invalid SessionID. " ]_vars

\* A login on session s1 was answered 200, null error code, sessionId s2,
\* and raised the session-integrity error.
C2_Witness ==
    /\ established /\ issued = "s1" /\ session_id = "s1"
    /\ op = "login" /\ Answered /\ Status = 200 /\ HasErrorDto /\ ErrorCode = None
    /\ request[1].json.sessionId = "s1"
    /\ Differs("s1", response[1]) /\ Data.sessionId = "s2"
    /\ error.kind = "session"

(***************************************************************************)
(* C3.  A response with a status other than 200 and a non-null error code  *)
(* raises the transport error, whose message reports the status and the    *)
(* reason, for every operation and every session state.                    *)
(***************************************************************************)
C3_TransportBeforeApplication ==
    (Answered /\ Status # 200 /\ HasErrorDto /\ ErrorCode # None)
        => /\ error.exc = "ServerError"
           /\ error.kind = "transport"
           /\ Status = 500 => error.message = "HTTP Response error: 500 Internal Server Error"

\* A verify on an established session was answered 500 with error code E1.
C3_Witness ==
    /\ op = "verify" /\ Truthy(session_id) /\ established
    /\ Answered /\ Status = 500 /\ HasErrorDto /\ ErrorCode = "E1"
    /\ error.kind = "transport"

(***************************************************************************)
(* C4.  A status-200 response with a non-null error code raises the        *)
(* application error with the server's message, whether its data or its    *)
(* data.sessionId is missing, null, empty, or different from the session   *)
(* identity.                                                               *)
(***************************************************************************)
C4_ApplicationBeforeSession ==
    (Answered /\ Status = 200 /\ HasErrorDto /\ ErrorCode # None)
        => /\ error.exc = "ServerError"
           /\ error.kind = "application"
           /\ error.message = response[1].body.errorDto.message
           /\ error.message = "Bad credentials"

\* A login on session s1 was answered 200 with error code E1 and sessionId s2.
C4_Witness ==
    /\ op = "login" /\ established /\ session_id = "s1"
    /\ Answered /\ Status = 200 /\ HasErrorDto /\ ErrorCode = "E1"
    /\ Differs("s1", response[1]) /\ Data.sessionId = "s2"
    /\ error.kind = "application"

(***************************************************************************)
(* C5.  login() on a client on which no connect() has succeeded raises     *)
(* and posts nothing, whatever use_encryption is.                          *)
(***************************************************************************)
C5_LoginBeforeConnectPostsNothing ==
    (op = "login" /\ ~established) => (error # NoError /\ request = NoObject)

(***************************************************************************)
(* C6.  verify() called without a successful login since the handshake,    *)
(* or when verification is not required, raises, posts nothing and leaves  *)
(* the token as it was.                                                    *)
(***************************************************************************)
C6_VerifyOutOfSequenceRejected ==
    [][ (op' = "verify" /\ ~(logged_in /\ use_verification))
        => (error' # NoError /\ request' = NoObject /\ secret' = secret) ]_vars

C8_TokenOnlyByVerify ==
    [][ /\ (use_verification /\ op' = "login" /\ error' = NoError) => secret' = secret
        /\ (use_verification /\ secret' # secret)
              => /\ op' = "verify" /\ error' = NoError
                 /\ WellFormedSecret(response'[1].body.data)
                       => secret' = Some(Decoded(response'[1].body.data.secret)) ]_vars

\* Scenario B: after a handshake requiring verification and a successful
\* login, verify answered with secret dG9rZW4= has set the token to b"token".
C8_Witness ==
    /\ use_verification /\ established /\ logged_in
    /\ op = "verify" /\ error = NoError
    /\ Data.secret = <<"d","G","9","r","Z","W","4","=">>
    /\ secret = Some(TokenBytes)

(***************************************************************************)
(* C9.  A login or verify that raises leaves session_id, aes and secret as *)
(* they were before the call.                                              *)
(***************************************************************************)
C9_FailedCallChangesNothing ==
    [][ (op' \in {"login", "verify"} /\ error' # NoError)
        => (session_id' = session_id /\ aes' = aes /\ secret' = secret) ]_vars

\* Scenario D: on session s1 a login is answered with sessionId s2 and a
\* secret; it raised the session-integrity error and the token is unset.
C9_Witness ==
    /\ op = "login" /\ ~use_verification /\ fresh /\ issued = "s1"
    /\ Answered /\ Status = 200 /\ HasErrorDto /\ ErrorCode = None
    /\ Differs("s1", response[1]) /\ Data.sessionId = "s2" /\ WellFormedSecret(Data)
    /\ error.kind = "session"
    /\ session_id = "s1" /\ secret = NoObject

(***************************************************************************)
(* C10.  Whenever connect() returns without error, session_id is set and   *)
(* non-empty and aes is the cipher of the decrypted aesKey and ivector.    *)
(***************************************************************************)
C10_ConnectedHasIdentity ==
    (op = "connect" /\ error = NoError)
        => (Truthy(session_id) /\ aes = Some(AESSucker("K1", "IV1")))

(***************************************************************************)
(* C11.  connect() called again on a client that holds a session, and      *)
(* answered with a well-formed handshake response (status 200, null error  *)
(* code, decryptable aesKey and ivector) carrying a new, non-empty session *)
(* identity, returns without error and has replaced the session identity   *)
(* and the cipher.                                                         *)
(***************************************************************************)
ValidHandshake(resp) ==
    /\ resp.status_code = 200
    /\ "errorDto" \in DOMAIN resp.body /\ resp.body.errorDto.code = None
    /\ "data" \in DOMAIN resp.body
    /\ "sessionId" \in DOMAIN resp.body.data /\ Truthy(resp.body.data.sessionId)
    /\ ~Raised(rsa_decrypt(resp.body.data, <<"aesKey", "ivector">>))

C11_ReconnectReplacesSession ==
    [][ ( /\ op' = "connect"
          /\ established /\ Truthy(session_id) /\ aes # NoObject
          /\ response' # NoObject
          /\ ValidHandshake(response'[1])
          /\ Differs(session_id, response'[1]) )
        => /\ error' = NoError
           /\ session_id' = response'[1].body.data.sessionId
           /\ aes' = Some(AESSucker("K1", "IV1")) ]_vars

(***************************************************************************)
(* C14.  The exception a session-identity mismatch raises is of another    *)
(* class than the exception any response raises as a transport or an       *)
(* application error, so the class tells the three failures apart.         *)
(***************************************************************************)
C14_SessionErrorIsDistinct ==
    (Answered /\ error.kind = "session")
        => \A r \in SessionResponses :
              check_response(Self, r).kind \in {"transport", "application"}
                  => check_response(Self, r).exc # error.exc

(***************************************************************************)
(* C12.  In every login and verify request the sensitive fields (login,    *)
(* password, code) went through the cipher if and only if the encryption   *)
(* flag sent in the most recent successful handshake was true; the         *)
(* Client's flag never differs from the one that handshake sent.           *)
(***************************************************************************)
Sensitive == Logins \cup Passwords \cup Codes

Plain(field) == field \in Sensitive

Ciphered(field) ==
    /\ aes # NoObject
    /\ \E d \in Sensitive : field = Value(aes_encrypt(aes[1], d))

AsNegotiated(field) ==
    IF negotiated # NoObject /\ negotiated[1] THEN Ciphered(field) ELSE Plain(field)

C12_EncryptedAsNegotiated ==
    /\ negotiated # NoObject => use_encryption = negotiated[1]
    /\ (op = "login" /\ request # NoObject)
           => AsNegotiated(request[1].json.login) /\ AsNegotiated(request[1].json.password)
    /\ (op = "verify" /\ request # NoObject)
           => AsNegotiated(request[1].json.code)

\* A login request sent in plaintext after a handshake for which the
\* encryption box was unchecked.
C12_Witness ==
    /\ op = "login" /\ request # NoObject
    /\ event.signal = "login.submit"
    /\ negotiated = Some(FALSE)
    /\ Plain(request[1].json.login) /\ Plain(request[1].json.password)

(***************************************************************************)
(* C13.  At most one of connect, login and verify is awaiting its response *)
(* on a Client at any time.                                                *)
(***************************************************************************)
C13_OneInFlight == Cardinality(pending) <= 1

(***************************************************************************)
(* C15.  When a code is submitted in the verification view, the Client's   *)
(* verify is invoked.                                                      *)
(***************************************************************************)
C15_VerifySubmitCallsVerify ==
    (view = VERIFY /\ event.signal = "verify.submit") => op = "verify"

(***************************************************************************)
(* C16.  The login view is current only after a connect has succeeded, the *)
(* verification view only after a successful login on a Client that        *)
(* requires verification, and the documents or file view only when the     *)
(* Client's token is set.                                                  *)
(***************************************************************************)
C16_ViewMatchesSession ==
    /\ view = LOGIN => established
    /\ view = VERIFY => established /\ logged_in /\ use_verification
    /\ view \in {DOCUMENTS, FILE} => secret # NoObject

\* The documents view reached by a login that built the token.
C16_Witness ==
    /\ view = DOCUMENTS
    /\ event.signal = "login.submit"
    /\ secret # NoObject /\ ~use_verification

(***************************************************************************)
(* C17.  At most one call of update_documents is scheduled at any time.    *)
(***************************************************************************)
C17_OneRefreshTimer == timers <= 1

\* The documents view shown again, from the file view, while the refresh
\* is scheduled.
C17_Witness ==
    /\ event.signal \in {"file.go_back", "file.delete_file"}
    /\ view = DOCUMENTS
    /\ updating /\ timers = 1

(***************************************************************************)
(* C18.  Submitting the login form with an empty login or an empty         *)
(* password posts nothing and changes neither the Client nor the current   *)
(* view; the error message is shown.                                       *)
(***************************************************************************)
EmptyLoginSubmitted(e) ==
    /\ e.signal = "login.submit"
    /\ e.args[1] = "" \/ e.args[2] = ""

C18_EmptyLoginChangesNothing ==
    [][ (event' # event /\ EmptyLoginSubmitted(event'))
            => /\ nrequests' = nrequests
               /\ UNCHANGED << session_id, aes, secret, use_encryption, use_verification >>
               /\ UNCHANGED << op, error, request, response >>
               /\ view' = view
               /\ UNCHANGED << updating, timers >>
               /\ error_message' = "Login and/or password cannot be empty." ]_vars

\* The form submitted with an empty password on a connected Client.
C18_Witness ==
    /\ EmptyLoginSubmitted(event)
    /\ event.args[1] # ""
    /\ view = LOGIN /\ established
    /\ error_message = "Login and/or password cannot be empty."

====
